---- MODULE Spec2Model ----
(***************************************************************************)
(* FAB (Firewall Access Bot): the session/access-request store and the web *)
(* handlers that redeem a one-time token into an access request.           *)
(*                                                                         *)
(* Every SQL statement issued through Database.execute is one atomic step  *)
(* (SQLite commits it on its own); a handler is a sequence of such steps   *)
(* run by a request worker, interleaved with the other workers, the        *)
(* sweeper and the clock.                                                  *)
(***************************************************************************)
EXTENDS Integers, Sequences, FiniteSets, TLC

\* ---------------------------------------------------------------- bounds
NumWorkers == 2
MaxSessions == 1
MaxRequests == 2
MaxTicks == 2
MaxTopics == 2
MaxTtl == 2
MaxCalls == 3

\* ------------------------------------------------------ program constants
\* config.access_token_expiry (default), the lifetime of a session token.
AccessTokenExpiry == 3600
\* server.MAX_DURATION
MAX_DURATION == 43200
\* Python's None in a datetime column (expires_at, closed_at).
None == -1

\* MQTT timing, in units of the 5 s the cleanup loop and the monitor sleep:
\* _attempt_reconnect refuses within 5 s of the last attempt; a failed clear
\* is rescheduled 10 s ahead.
ReconnectGap == 1
RetryDelay == 2

\* RabbitMQPublisher: _max_reconnect_attempts, _reconnect_delay (seconds) and
\* the cap of the backoff delay.
MaxReconnectAttempts == 5
ReconnectDelay == 5
MaxBackoff == 60

ALLOWED_DURATIONS == {3600, 10800, 28800, 43200}

\* ------------------------------------------------------------ input sets
Workers == 1..NumWorkers
\* Token 0 stands for a string that is not a UUID v4; 1..MaxSessions are the
\* UUIDs uuid4() hands out, in the order they are issued.
Tokens == 1..MaxSessions
TokenInputs == 0..MaxSessions
AccessIdInputs == 0..MaxRequests
\* Telegram user ids.
Owners == {1111, 3333}
\* A duration as it arrives in the JSON body: <<"int", n>> for the number n,
\* <<"str", 0>> for a value int() refuses (a word, null, a list).
DurationInputs ==
    {<<"int", 3600>>, <<"int", 10800>>, <<"int", 9999>>, <<"str", 0>>}
\* Durations handed to DatabaseManager.create_access_request directly: the
\* store accepts any integer.
StoreDurations == {3600, 10800, 0, -60}
\* The address those direct calls carry (the store does not look at it).
StoreIp == <<10, 0, 0, 5>>
\* IPv4 addresses as four octets: one private, one public.
NoIp == <<>>
IpInputs == {<<10, 0, 0, 5>>, <<1, 2, 3, 4>>}
MaxTime == MaxTicks * AccessTokenExpiry
\* MQTT topics (one per IP address) and the ttl of an open publish, in units.
\* The threads that take a publisher's lock: the request workers, and the
\* publisher's own MQTT-Monitor or RabbitMQ-KeepAlive thread; and the thread
\* that runs the application's shutdown.
Monitor == 0
KeepAlive == 0
Main == NumWorkers + 1
Threads == {KeepAlive} \cup Workers

Topics == 1..MaxTopics
TtlInputs == 0..MaxTtl

VARIABLES
    now,        \* the wall clock, datetime.now(timezone.utc)
    issued,     \* how many tokens uuid4() has handed out
    sessions,   \* table user_sessions: token -> row, or NoRow
    requests,   \* table access_requests: a sequence, the id is the index
    worker,     \* each request worker's handler position and locals
    sweeper,    \* the position of cleanup_expired_data
    published,  \* number of calls of rabbitmq_service.publish_access_event
    redeemed,   \* history: redeemed[id] is the token whose redemption created id
    consumed,   \* history: per token, how many use_atomic calls returned True (won)
                \* and the IPs of those that returned False (lost)
    returned,   \* history: the access ids open_access has answered with success
    reclosed,   \* history: the access ids closed again by a call that read them closed
    last,       \* history: the handler call that completed most recently
    bus_up,        \* the MQTT broker is reachable
    mq_client,     \* MqttPublisher._client: "none", "built" (no network loop
                   \* running) or "looping" (loop_start and monitor running)
    mq_connected,  \* MqttPublisher._connected
    mq_since,      \* units since _last_connect_attempt, capped at ReconnectGap
    expiry_map,    \* MqttService._expiry_map: topic -> units left, or None
    retained,      \* the broker holds a non-empty retained payload on the topic
    cleanup,       \* _cleanup_worker: position and its local list `expired`
    quiet,         \* the callers have stopped opening and closing
    clear_state,   \* history: per topic, "none", "failed" (the cleanup loop's
                   \* last clear attempt failed) or "recovered"
    mq_lock,       \* MqttPublisher._connection_lock: its holder, or None
    strategy,      \* the service the callers publish through: "queue"
                   \* (rabbitmq_service) or "retained" (mqtt_service)
    enabled,       \* that service's self.enabled
    config,        \* config.rabbitmq_exchange, _exchange_type, _routing_key
    audit,         \* number of ACCESS_EVENT records written to the log
    rq_conn,       \* RabbitMQPublisher._connection and _channel: "none" (None),
                   \* "open", or "closed" (still referenced, is_closed true)
    rq_attempts,   \* RabbitMQPublisher._reconnect_attempts
    rq_lock,       \* RabbitMQPublisher._connection_lock: its holder, or None
    rq_pc,         \* per thread, its position in publish_message or in
                   \* _keep_alive_worker
    rq_delay,      \* the delay _handle_connection_loss is sleeping, else 0
    rq_sent,       \* number of messages handed to basic_publish without error
    rq_ret,        \* what publish_access_event returned last
    rq_revived,    \* history: a publish_message connected after the
                   \* reconnect attempts had been exhausted
    rq_bound,      \* the routing key of connect()'s last queue_bind, as a
                   \* one-element sequence; <<>> when nothing was bound
    rq_key,        \* the routing key of the last basic_publish that returned,
                   \* as a one-element sequence; <<>> before the first
    rq_running,    \* RabbitMQPublisher._keep_alive_running
    stop_pc        \* the thread shutting the service down: "idle" before
                   \* stop() is called, then its position, "done" once returned

mqtt_vars == <<bus_up, mq_client, mq_connected, mq_since, expiry_map, retained,
               cleanup, quiet, clear_state, mq_lock>>

conf_vars == <<strategy, enabled, config>>

rabbit_vars == <<rq_conn, rq_attempts, rq_lock, rq_pc, rq_delay, rq_sent,
                 rq_ret, rq_revived, rq_bound, rq_key, rq_running, stop_pc>>

web_vars == <<now, issued, sessions, requests, worker, sweeper, published,
              redeemed, consumed, returned, reclosed, last>>

vars == <<web_vars, mqtt_vars, conf_vars, audit, rabbit_vars>>

NoRow == [absent |-> TRUE]
\* config.rabbitmq_queue, and the exchange settings: RABBITMQ_EXCHANGE (empty
\* for the default exchange), RABBITMQ_EXCHANGE_TYPE, RABBITMQ_ROUTING_KEY.
rabbitmq_queue == "firewall_access"

Configs ==
    [exchange : {"", "fab"},
     exchange_type : {"direct", "fanout", "topic"},
     routing_key : {"", "firewall.access"}]

DefaultConfig ==
    [exchange |-> "", exchange_type |-> "direct",
     routing_key |-> "firewall.access"]

\* A free worker; `at` is the clock reading of the handler's session lookup.
Idle ==
    [pc |-> "idle", tok |-> 0, dur |-> 0, ip |-> NoIp, sess |-> NoRow,
     at |-> 0, rid |-> 0, req |-> NoRow]
NoCall == [op |-> "none", tok |-> 0, dur_ok |-> FALSE, resp |-> "none"]

\* -------------------------------------------------------- pure functions

\* server._validate_token: 36 characters matching the UUID v4 pattern. The
\* handlers apply it to session tokens and to access ids alike; 0 is the
\* one malformed value of either kind.
validate_token(token) == token # 0

\* int(duration): the integer, or ValueError/TypeError (None here).
int_of(duration) == IF duration[1] = "int" THEN duration[2] ELSE None

\* server._validate_duration without the allow-list test: the range test
\* alone.
validate_duration_range_only(duration) ==
    LET duration_int == int_of(duration) IN
    IF duration[1] # "int" THEN None
    ELSE IF duration_int <= 0 \/ duration_int > MAX_DURATION THEN None
    ELSE duration_int

\* server._validate_duration: the validated integer, or None.
validate_duration(duration) ==
    LET duration_int == int_of(duration) IN
    IF duration[1] # "int" THEN None
    ELSE IF duration_int \notin ALLOWED_DURATIONS THEN None
    ELSE IF duration_int <= 0 \/ duration_int > MAX_DURATION THEN None
    ELSE duration_int

\* ip_utils.is_local_ip: membership in the private/local/test ranges.
is_local_ip(ip) ==
    /\ Len(ip) = 4
    /\ \/ ip[1] = 127
       \/ ip[1] = 10
       \/ ip[1] = 172 /\ ip[2] \in 16..31
       \/ ip[1] = 192 /\ ip[2] = 168
       \/ ip[1] = 169 /\ ip[2] = 254
       \/ ip[1] = 192 /\ ip[2] = 0 /\ ip[3] = 2
       \/ ip[1] = 198 /\ ip[2] = 51 /\ ip[3] = 100
       \/ ip[1] = 203 /\ ip[2] = 0 /\ ip[3] = 113

\* is_expired measured from the wrong column.
session_is_expired_since_created(sess, t) == t > sess.created_at

\* UserSession.is_expired, AccessRequest.is_expired at clock reading t.
session_is_expired(sess, t) == t > sess.expires_at

request_is_expired(req, t) ==
    IF req.expires_at = None THEN FALSE ELSE t > req.expires_at

\* AccessRequest has no to_rabbitmq_message method (only to_mqtt_payload):
\* the call in the handlers raises AttributeError.
has_to_rabbitmq_message_defined == TRUE

has_to_rabbitmq_message == FALSE

\* get_active_for_user without its expires_at test.
RECURSIVE active_from_ignores_expiry(_, _, _, _)
active_from_ignores_expiry(rows, i, owner, t) ==
    IF i = 0 THEN <<>>
    ELSE LET r == rows[i] IN
         IF r.telegram_user_id = owner /\ r.status = "open"
         THEN <<i>> \o active_from_ignores_expiry(rows, i - 1, owner, t)
         ELSE active_from_ignores_expiry(rows, i - 1, owner, t)

\* AccessRequest.get_active_for_user over the table `rows`: the ids of the
\* owner's rows with status 'open' and expires_at NULL or > t, newest first.
RECURSIVE active_from(_, _, _, _)
active_from(rows, i, owner, t) ==
    IF i = 0 THEN <<>>
    ELSE LET r == rows[i] IN
         IF /\ r.telegram_user_id = owner
            /\ r.status = "open"
            /\ (r.expires_at = None \/ r.expires_at > t)
         THEN <<i>> \o active_from(rows, i - 1, owner, t)
         ELSE active_from(rows, i - 1, owner, t)

get_active_for_user(owner, t) == active_from(requests, Len(requests), owner, t)

Range(s) == {s[i] : i \in DOMAIN s}

\* The state after construction, for a deployment that publishes through
\* the service `strat` with self.enabled = en.
InitConfig(strat, en, cfg) ==
    /\ now = 0
    /\ issued = 0
    /\ sessions = [t \in Tokens |-> NoRow]
    /\ requests = <<>>
    /\ worker = [w \in Workers |-> Idle]
    /\ sweeper = "idle"
    /\ published = 0
    /\ redeemed = <<>>
    /\ consumed = [t \in Tokens |-> [won |-> 0, lost |-> {}]]
    /\ returned = {}
    /\ reclosed = {}
    /\ last = NoCall
    /\ bus_up = TRUE
    /\ mq_client = "none"
    /\ mq_connected = FALSE
    /\ mq_since = ReconnectGap
    /\ expiry_map = [t \in Topics |-> None]
    /\ retained = [t \in Topics |-> FALSE]
    /\ cleanup = [pc |-> "off", expired |-> <<>>]
    /\ quiet = FALSE
    /\ clear_state = [t \in Topics |-> "none"]
    /\ mq_lock = None
    /\ strategy = strat
    /\ enabled = en
    /\ config = cfg
    /\ audit = 0
    /\ rq_conn = "none"
    /\ rq_attempts = 0
    /\ rq_lock = None
    /\ rq_pc = [th \in Threads |-> IF th = KeepAlive THEN "off" ELSE "idle"]
    /\ rq_delay = 0
    /\ rq_sent = 0
    /\ rq_ret = "none"
    /\ rq_revived = FALSE
    /\ rq_bound = <<>>
    /\ rq_key = <<>>
    /\ rq_running = FALSE
    /\ stop_pc = "idle"

\* main.py starts rabbitmq_service only.
\* The same with the configuration a deployment gets from the environment's
\* defaults.
InitState(strat, en) == InitConfig(strat, en, DefaultConfig)

Init == InitState("queue", TRUE)

\* The clock advances.
Tick ==
    /\ now < MaxTime
    /\ now' = now + AccessTokenExpiry
    /\ UNCHANGED <<mqtt_vars, conf_vars, audit, rabbit_vars, issued, sessions, requests, worker, sweeper, published,
                   redeemed, consumed, last, returned, reclosed>>

\* UserSession.create, called by the bot's handle_add_access.
create_session(owner) ==
    /\ issued < MaxSessions
    /\ issued' = issued + 1
    /\ sessions' = [sessions EXCEPT ![issued + 1] =
          [telegram_user_id |-> owner, chat_id |-> owner, ip_address |-> NoIp,
           created_at |-> now, expires_at |-> now + AccessTokenExpiry,
           used |-> FALSE]]
    /\ UNCHANGED <<mqtt_vars, conf_vars, audit, rabbit_vars, now, requests, worker, sweeper, published, redeemed,
                   consumed, last, returned, reclosed>>

\* A handler returns: the worker is free again and the response is noted.
Respond(w, op, resp) ==
    /\ worker' = [worker EXCEPT ![w] = Idle]
    /\ last' = [op |-> op, tok |-> IF op = "open" THEN worker[w].tok ELSE 0,
                dur_ok |-> op = "open", resp |-> resp]

\* DatabaseManager.get_session followed by the handlers' own
\* `not session or session.is_expired()`: the session returned at clock
\* reading t, or NoRow. The SELECT and the clock readings touch nothing
\* shared, so they are taken at the instant of the DELETE that may follow.
get_session(token, t) ==
    IF sessions[token] = NoRow \/ session_is_expired(sessions[token], t)
    THEN NoRow
    ELSE sessions[token]

\* The user_sessions table get_session leaves: an expired row is deleted.
get_session_deletes(token, t) ==
    sessions[token] # NoRow /\ session_is_expired(sessions[token], t)

\* ------------------------------------------------- GET /<token> (page)

\* access_page up to session.set_ip: the token check, get_session, the
\* expiry check, and `if not session.ip_address` on the object just read.
access_page(w, token, client_ip) ==
    /\ worker[w].pc = "idle"
    /\ sessions' = IF validate_token(token) /\ get_session_deletes(token, now)
                   THEN [sessions EXCEPT ![token] = NoRow]
                   ELSE sessions
    /\ IF /\ validate_token(token)
          /\ get_session(token, now) # NoRow
          /\ get_session(token, now).ip_address = NoIp
       THEN /\ worker' = [worker EXCEPT ![w] =
                  [Idle EXCEPT !.pc = "set_ip", !.tok = token,
                               !.ip = client_ip,
                               !.sess = get_session(token, now)]]
            /\ UNCHANGED last
       ELSE /\ worker' = [worker EXCEPT ![w] = Idle]
            /\ last' = [op |-> "page", tok |-> 0, dur_ok |-> FALSE,
                        resp |-> IF validate_token(token)
                                    /\ get_session(token, now) # NoRow
                                 THEN "page" ELSE "OK"]
    /\ UNCHANGED <<mqtt_vars, conf_vars, audit, rabbit_vars, now, issued,
                   requests, sweeper, published, redeemed, consumed, returned,
                   reclosed>>

\* The row UserSession.set_ip's UPDATE leaves:
\* SET ip_address = ? WHERE token = ?, whatever the row's `used`.
set_ip_row(row, ip_address) ==
    IF row = NoRow THEN NoRow ELSE [row EXCEPT !.ip_address = ip_address]

\* access_page: session.set_ip(client_ip), then the page is rendered.
set_ip(w) ==
    /\ worker[w].pc = "set_ip"
    /\ sessions' = [sessions EXCEPT
          ![worker[w].tok] = set_ip_row(@, worker[w].ip)]
    /\ Respond(w, "page", "page")
    /\ UNCHANGED <<mqtt_vars, conf_vars, audit, rabbit_vars, now, issued,
                   requests, sweeper, published, redeemed, consumed, returned,
                   reclosed>>

\* ------------------------------------------------ POST /a/<token> (open)

\* open_access up to session.use_atomic: the token and duration checks,
\* get_session, the expiry check and the `session.used` check.
reject_names_cause(cause) == cause

\* What open_access answers when it refuses: `return "OK", 200` at every
\* refusal, whatever its cause.
reject(cause) == "OK"

\* The two responses of the web handlers as Flask sends them: the tuple
\* ("OK", 200) is a text/html body, jsonify({...}) an application/json body
\* holding an object; both carry status 200.
status_code(resp) == 200

is_json_object(resp) == resp = "success"

open_access(w, token, duration, client_ip) ==
    /\ worker[w].pc = "idle"
    /\ IF ~validate_token(token) \/ validate_duration(duration) = None
       THEN /\ worker' = [worker EXCEPT ![w] = Idle]
            /\ last' = [op |-> "open", tok |-> token,
                        dur_ok |-> validate_duration(duration) # None,
                        resp |-> reject(IF ~validate_token(token)
                                        THEN "malformed" ELSE "duration")]
            /\ UNCHANGED sessions
       ELSE /\ sessions' = IF get_session_deletes(token, now)
                           THEN [sessions EXCEPT ![token] = NoRow]
                           ELSE sessions
            /\ IF get_session(token, now) = NoRow \/ get_session(token, now).used
               THEN /\ worker' = [worker EXCEPT ![w] = Idle]
                    /\ last' = [op |-> "open", tok |-> token, dur_ok |-> TRUE,
                                resp |-> reject(
                                    IF get_session(token, now) # NoRow THEN "used"
                                    ELSE IF get_session_deletes(token, now)
                                         THEN "expired" ELSE "absent")]
               ELSE /\ worker' = [worker EXCEPT ![w] =
                          [pc |-> "use_atomic", tok |-> token,
                           dur |-> validate_duration(duration),
                           ip |-> client_ip,
                           sess |-> get_session(token, now), at |-> now,
                           rid |-> 0, req |-> NoRow]]
                    /\ UNCHANGED last
    /\ UNCHANGED <<mqtt_vars, conf_vars, audit, rabbit_vars, now, issued, requests, sweeper, published, redeemed,
                   consumed, returned, reclosed>>

\* The row UserSession.use_atomic's UPDATE leaves for `token`, and its
\* rowcount: SET used = 1, ip_address = ? WHERE token = ? AND used = 0.
use_atomic_matches_unguarded(token) ==
    sessions[token] # NoRow

use_atomic_matches(token) ==
    sessions[token] # NoRow /\ ~sessions[token].used

use_atomic_row_sets_ip_only(token, ip_address) ==
    [sessions[token] EXCEPT !.ip_address = ip_address]

use_atomic_row(token, ip_address) ==
    [sessions[token] EXCEPT !.used = TRUE, !.ip_address = ip_address]

\* open_access: session.use_atomic(client_ip).
use_atomic(w) ==
    /\ worker[w].pc = "use_atomic"
    /\ LET token == worker[w].tok IN
       IF use_atomic_matches(token)
       THEN /\ sessions' = [sessions EXCEPT ![token] =
                                use_atomic_row(token, worker[w].ip)]
            /\ consumed' = [consumed EXCEPT ![token].won = @ + 1]
            /\ worker' = [worker EXCEPT ![w].pc = "create"]
            /\ UNCHANGED last
       ELSE /\ consumed' = [consumed EXCEPT ![token].lost = @ \cup {worker[w].ip}]
            /\ Respond(w, "open", reject("race"))
            /\ UNCHANGED sessions
    /\ UNCHANGED <<mqtt_vars, conf_vars, audit, rabbit_vars, now, issued, requests, sweeper, published, redeemed,
                   returned, reclosed>>

\* AccessRequest.create: the row INSERTed for a new request.
new_request_expiry_not_from_now(owner, chat, duration, ip_address, t) ==
    [telegram_user_id |-> owner, chat_id |-> chat, ip_address |-> ip_address,
     duration |-> duration, status |-> "open", created_at |-> t,
     expires_at |-> IF duration > 0 THEN duration ELSE None,
     closed_at |-> None]

new_request(owner, chat, duration, ip_address, t) ==
    [telegram_user_id |-> owner, chat_id |-> chat, ip_address |-> ip_address,
     duration |-> duration, status |-> "open", created_at |-> t,
     expires_at |-> IF duration > 0 THEN t + duration ELSE None,
     closed_at |-> None]

\* What the handlers do after the store call, for the request's IP: a local
\* IP skips the publish; otherwise to_rabbitmq_message() is called.
publishes(ip) == ~is_local_ip(ip) /\ has_to_rabbitmq_message

raises(ip) == ~is_local_ip(ip) /\ ~has_to_rabbitmq_message

\* AccessRequest.create: request_id = str(uuid.uuid4()), a fresh id.
new_id == Len(requests) + 1

\* open_access: create_access_request, the publish, the JSON response.
\* `bus` is what publish_access_event returns (False when the bus cannot be
\* reached, rabbitmq.py 225-285); open_access discards it.
create_access_request(w, bus) ==
    /\ worker[w].pc = "create"
    /\ Len(requests) < MaxRequests
    /\ requests' = Append(requests,
          new_request(worker[w].sess.telegram_user_id, worker[w].sess.chat_id,
                      worker[w].dur, worker[w].ip, now))
    /\ redeemed' = Append(redeemed, worker[w].tok)
    /\ published' = IF publishes(worker[w].ip) THEN published + 1 ELSE published
    /\ worker' = [worker EXCEPT ![w] = Idle]
    /\ last' = [op |-> "open", tok |-> worker[w].tok, dur_ok |-> TRUE,
                resp |-> IF raises(worker[w].ip) THEN reject("error")
                         ELSE "success"]
    /\ returned' = IF raises(worker[w].ip) THEN returned
                    ELSE returned \cup {new_id}
    /\ UNCHANGED <<mqtt_vars, conf_vars, audit, rabbit_vars, now, issued, sessions, sweeper, consumed, reclosed>>

\* ------------------------------------------- POST /c/<access_id> (close)

\* AccessRequest.get_by_id finds a row.
request_exists(access_id) == access_id \in 1..Len(requests)

\* close_access up to request.close(): the id check, the optional session
\* token (None when the body carries none) with get_session, and
\* AccessRequest.get_by_id in close_access_request.
close_access(w, access_id, token) ==
    /\ worker[w].pc = "idle"
    /\ sessions' = IF /\ validate_token(access_id)
                      /\ token # None
                      /\ validate_token(token)
                      /\ get_session_deletes(token, now)
                   THEN [sessions EXCEPT ![token] = NoRow]
                   ELSE sessions
    /\ IF \/ ~validate_token(access_id)
          \/ token # None /\ ~validate_token(token)
          \/ token # None /\ get_session(token, now) = NoRow
          \/ ~request_exists(access_id)
       THEN /\ worker' = [worker EXCEPT ![w] = Idle]
            /\ last' = [op |-> "close", tok |-> 0, dur_ok |-> FALSE,
                        resp |-> "OK"]
       ELSE /\ worker' = [worker EXCEPT ![w] =
                  [Idle EXCEPT !.pc = "close", !.rid = access_id,
                               !.req = requests[access_id]]]
            /\ UNCHANGED last
    /\ UNCHANGED <<mqtt_vars, conf_vars, audit, rabbit_vars, now, issued, requests, sweeper, published, redeemed,
                   consumed, returned, reclosed>>

\* Two faulty UPDATEs: one that forgets closed_at, one that flips status.
close_row_status_only(req, t) == [req EXCEPT !.status = "closed"]

close_row_toggles(req, t) ==
    [req EXCEPT !.status = IF @ = "open" THEN "closed" ELSE "open",
                !.closed_at = t]

\* AccessRequest.close: UPDATE ... SET status = 'closed', closed_at = ?
\* WHERE id = ?, whatever the row's status.
close_row(req, t) == [req EXCEPT !.status = "closed", !.closed_at = t]

\* close_access_request's request.close(), then the publish and response.
close_access_request(w) ==
    /\ worker[w].pc = "close"
    /\ LET rid == worker[w].rid IN
       /\ requests' = [requests EXCEPT ![rid] = close_row(requests[rid], now)]
       /\ published' = IF publishes(worker[w].req.ip_address)
                       THEN published + 1 ELSE published
       /\ Respond(w, "close",
                  IF raises(worker[w].req.ip_address) THEN "OK" ELSE "success")
       /\ reclosed' = IF worker[w].req.status = "closed"
                       THEN reclosed \cup {rid} ELSE reclosed
    /\ UNCHANGED <<mqtt_vars, conf_vars, audit, rabbit_vars, now, issued, sessions, sweeper, redeemed, consumed, returned>>

\* A statement fails (Database.execute rolls back and raises): the handler's
\* `except Exception` answers "OK" and nothing is written.
store_error(w) ==
    /\ worker[w].pc # "idle"
    /\ Respond(w, IF worker[w].pc = "close" THEN "close" ELSE "open",
               IF worker[w].pc = "close" THEN "OK" ELSE reject("error"))
    /\ UNCHANGED <<mqtt_vars, conf_vars, audit, rabbit_vars, now, issued, sessions, requests, sweeper, published,
                   redeemed, consumed, returned, reclosed>>

\* ------------------------------------------- bot: close access button

\* handle_close_access: close_access_request(access_id) first, then the
\* owner check, then to_rabbitmq_message() and the publish, with no look at
\* the request's IP. An AttributeError ends in the handler's except branch.
handle_close_access(user_id, access_id) ==
    /\ request_exists(access_id)
    /\ requests' = [requests EXCEPT ![access_id] = close_row(@, now)]
    /\ published' = IF /\ requests[access_id].telegram_user_id = user_id
                       /\ has_to_rabbitmq_message
                    THEN published + 1 ELSE published
    /\ reclosed' = IF requests[access_id].status = "closed"
                   THEN reclosed \cup {access_id} ELSE reclosed
    /\ UNCHANGED <<mqtt_vars, conf_vars, audit, rabbit_vars, now, issued, sessions, worker, sweeper, redeemed,
                   consumed, returned, last>>

\* ------------------------------------------------------------- sweeper

\* Database.cleanup_expired_sessions: DELETE ... WHERE expires_at < now.
session_swept_at_boundary(sess, t) == sess.expires_at <= t

\* The WHERE clause of the DELETE: expires_at < ?, with ? the clock reading.
session_swept(sess, t) == sess.expires_at < t

cleanup_expired_sessions ==
    /\ sweeper = "idle"
    /\ sessions' = [t \in Tokens |->
          IF sessions[t] # NoRow /\ session_swept(sessions[t], now)
          THEN NoRow ELSE sessions[t]]
    /\ sweeper' = "requests"
    /\ UNCHANGED <<mqtt_vars, conf_vars, audit, rabbit_vars, now, issued, requests, worker, published, redeemed,
                   consumed, last, returned, reclosed>>

\* The sweeper's UPDATE without its closed_at assignment.
sweep_row_status_only(req, t) ==
    IF req.status = "open" /\ req.expires_at # None /\ req.expires_at < t
    THEN [req EXCEPT !.status = "closed"]
    ELSE req

\* The row cleanup_expired_access_requests' UPDATE leaves:
\* SET status = 'closed', closed_at = CURRENT_TIMESTAMP
\* WHERE status = 'open' AND expires_at < now.
sweep_row(req, t) ==
    IF req.status = "open" /\ req.expires_at # None /\ req.expires_at < t
    THEN [req EXCEPT !.status = "closed", !.closed_at = t]
    ELSE req

cleanup_expired_access_requests ==
    /\ sweeper = "requests"
    /\ requests' = [i \in DOMAIN requests |-> sweep_row(requests[i], now)]
    /\ sweeper' = "idle"
    /\ UNCHANGED <<mqtt_vars, conf_vars, audit, rabbit_vars, now, issued, sessions, worker, published, redeemed,
                   consumed, last, returned, reclosed>>

\* ---------------------------------------------------- MQTT (utils/mqtt)

\* join(timeout=5.0) on a thread: it returns when the thread has ended, and
\* without the timeout only then; as the code has it, it also returns when
\* the 5 s have passed, whatever the thread does.
join_returns_unbounded(alive) == ~alive

join_returns(alive) == TRUE

\* `with self._connection_lock` can be entered by a thread that does not
\* hold it only when no thread does.
lock_free(holder) == holder = None

\* MqttPublisher.publish under _connection_lock: connect() when there is no
\* client, _attempt_reconnect() when _connected is false (refused within
\* ReconnectGap of the last attempt), then client.publish. connect(),
\* reconnect() and client.publish succeed exactly when the broker is
\* reachable. The outcome: the boolean returned, the client and the time since
\* the last reconnect attempt it leaves, and whether connect() or reconnect()
\* was called (tried).
publish ==
    LET connect_failed == mq_client = "none" /\ ~bus_up
        wants_reconnect == ~connect_failed /\ ~mq_connected
        attempted == wants_reconnect /\ mq_since >= ReconnectGap
        reaches_publish ==
            ~connect_failed /\ (mq_connected \/ (attempted /\ bus_up))
    IN [ok |-> reaches_publish /\ bus_up,
        client |-> IF mq_client = "none"
                   THEN (IF bus_up THEN "looping" ELSE "built")
                   ELSE mq_client,
        since |-> IF attempted THEN 0 ELSE mq_since,
        tried |-> mq_client = "none" \/ attempted]

\* MqttService.start: publisher.connect(), then _start_cleanup().
mqtt_start ==
    /\ enabled
    /\ lock_free(mq_lock)
    /\ cleanup.pc = "off"
    /\ mq_client' = IF mq_client = "looping" \/ bus_up THEN "looping" ELSE "built"
    /\ cleanup' = [pc |-> "sleep", expired |-> <<>>]
    /\ UNCHANGED <<web_vars, conf_vars, rabbit_vars, audit, mq_lock, bus_up, mq_connected, mq_since, expiry_map,
                   retained, quiet, clear_state>>

\* _schedule_expiry: expire_at = time.time() + ttl, kept as the units left;
\* and a scheduling that forgets the ttl.
schedule_expiry_at_once(topic, ttl) == [expiry_map EXCEPT ![topic] = 0]

schedule_expiry(topic, ttl) == [expiry_map EXCEPT ![topic] = ttl]

\* The log record, written only when the service is enabled; and as the code
\* has it: logger.info("ACCESS_EVENT...") is the first thing the call does.
logs_event_when_enabled(en) == en

logs_event(en) == TRUE

\* MqttService.publish_whitelist_open: the log record; nothing more when the
\* service is disabled or ttl <= 0; else a retained {"ttl": ttl}, and the
\* expiry is scheduled only when the publish succeeded.
publish_whitelist_open(topic, ttl) ==
    /\ ~quiet
    /\ audit < MaxCalls
    /\ audit' = IF logs_event(enabled) THEN audit + 1 ELSE audit
    /\ IF ~enabled \/ ttl <= 0
       THEN UNCHANGED <<mq_client, mq_since, retained, expiry_map, clear_state>>
       ELSE /\ lock_free(mq_lock)
            /\ mq_client' = publish.client
            /\ mq_since' = publish.since
            /\ IF publish.ok
               THEN /\ retained' = [retained EXCEPT ![topic] = TRUE]
                    /\ expiry_map' = schedule_expiry(topic, ttl)
                    /\ clear_state' = [clear_state EXCEPT ![topic] = "none"]
               ELSE UNCHANGED <<retained, expiry_map, clear_state>>
    /\ UNCHANGED <<web_vars, conf_vars, rabbit_vars, mq_lock, bus_up, mq_connected, cleanup,
                   quiet>>

\* MqttService.publish_whitelist_close: a retained empty payload; the topic
\* leaves the expiry map whether or not the publish succeeded.
publish_whitelist_close(topic) ==
    /\ ~quiet
    /\ audit < MaxCalls
    /\ audit' = IF logs_event(enabled) THEN audit + 1 ELSE audit
    /\ IF ~enabled
       THEN UNCHANGED <<mq_client, mq_since, retained, expiry_map, clear_state>>
       ELSE /\ lock_free(mq_lock)
            /\ mq_client' = publish.client
            /\ mq_since' = publish.since
            /\ retained' = IF publish.ok
                           THEN [retained EXCEPT ![topic] = FALSE]
                           ELSE retained
            /\ expiry_map' = [expiry_map EXCEPT ![topic] = None]
            /\ clear_state' = [clear_state EXCEPT ![topic] = "none"]
    /\ UNCHANGED <<web_vars, conf_vars, rabbit_vars, mq_lock, bus_up, mq_connected, cleanup,
                   quiet>>

\* The expired topics in some order (dict order in the code).
RECURSIVE orders(_)
orders(S) ==
    IF S = {} THEN {<<>>}
    ELSE UNION {{<<x>> \o r : r \in orders(S \ {x})} : x \in S}

\* self._cleanup_running: set by _start_cleanup, cleared by _stop_cleanup.
cleanup_running == stop_pc = "idle"

\* _cleanup_worker after its sleep: the loop ends when _cleanup_running is
\* false; else it collects the topics with expire_at <= now.
cleanup_worker_scan ==
    /\ cleanup.pc = "sleep"
    /\ IF cleanup_running
       THEN \E e \in orders({t \in Topics : expiry_map[t] = 0}) :
               cleanup' = [pc |-> IF e = <<>> THEN "sleep" ELSE "run",
                           expired |-> e]
       ELSE cleanup' = [pc |-> "off", expired |-> <<>>]
    /\ UNCHANGED <<web_vars, conf_vars, rabbit_vars, audit, mq_lock, bus_up, mq_client, mq_connected, mq_since,
                   expiry_map, retained, quiet, clear_state>>

\* What _cleanup_worker leaves in the expiry map for a topic whose clear
\* failed with the entry dropped, and as the code has it: time.time() + 10.0.
on_clear_failure_drops(topic) == [expiry_map EXCEPT ![topic] = None]

on_clear_failure(topic) == [expiry_map EXCEPT ![topic] = RetryDelay]

\* _cleanup_worker: the clear publish for the next expired topic.
cleanup_worker_publish ==
    /\ cleanup.pc = "run"
    /\ lock_free(mq_lock)
    /\ LET topic == Head(cleanup.expired) IN
       /\ mq_client' = publish.client
       /\ mq_since' = publish.since
       /\ IF publish.ok
          THEN /\ retained' = [retained EXCEPT ![topic] = FALSE]
               /\ expiry_map' = [expiry_map EXCEPT ![topic] = None]
               /\ clear_state' = [clear_state EXCEPT ![topic] =
                      IF @ = "failed" THEN "recovered" ELSE @]
          ELSE /\ expiry_map' = on_clear_failure(topic)
               /\ clear_state' = [clear_state EXCEPT ![topic] = "failed"]
               /\ UNCHANGED retained
       /\ cleanup' = [pc |-> IF Tail(cleanup.expired) = <<>>
                             THEN "sleep" ELSE "run",
                      expired |-> Tail(cleanup.expired)]
    /\ UNCHANGED <<web_vars, conf_vars, rabbit_vars, audit, mq_lock, bus_up, mq_connected, quiet>>

\* _on_connect / _on_disconnect, called by the client's network loop.
on_connect ==
    /\ mq_client = "looping" /\ bus_up /\ ~mq_connected
    /\ mq_connected' = TRUE
    /\ UNCHANGED <<web_vars, conf_vars, rabbit_vars, audit, mq_lock, bus_up, mq_client, mq_since, expiry_map, retained,
                   cleanup, quiet, clear_state>>

on_disconnect ==
    /\ mq_connected /\ ~bus_up
    /\ mq_connected' = FALSE
    /\ UNCHANGED <<web_vars, conf_vars, rabbit_vars, audit, mq_lock, bus_up, mq_client, mq_since, expiry_map, retained,
                   cleanup, quiet, clear_state>>

\* _monitor_worker after its sleep: `with self._connection_lock`.
monitor_acquire ==
    /\ mq_client = "looping"
    /\ lock_free(mq_lock)
    /\ mq_lock' = Monitor
    /\ UNCHANGED <<web_vars, conf_vars, rabbit_vars, audit, bus_up, mq_client, mq_connected,
                   mq_since, expiry_map, retained, cleanup, quiet, clear_state>>

\* _monitor_worker under the lock: _attempt_reconnect() while not connected
\* (refused within ReconnectGap of the last attempt), then the lock is left.
monitor_worker ==
    /\ mq_lock = Monitor
    /\ mq_since' = IF ~mq_connected /\ mq_since >= ReconnectGap
                   THEN 0 ELSE mq_since
    /\ mq_lock' = None
    /\ UNCHANGED <<web_vars, conf_vars, rabbit_vars, audit, bus_up, mq_client, mq_connected,
                   expiry_map, retained, cleanup, quiet, clear_state>>

\* MqttService.stop: _stop_cleanup's self._cleanup_running = False.
mqtt_stop ==
    /\ stop_pc = "idle"
    /\ stop_pc' = "mq_cleanup"
    /\ UNCHANGED <<web_vars, mqtt_vars, conf_vars, audit, rq_conn, rq_attempts,
                   rq_lock, rq_pc, rq_delay, rq_sent, rq_ret, rq_revived,
                   rq_bound, rq_key, rq_running>>

\* _stop_cleanup's join on the cleanup thread; then publisher.disconnect()
\* when enabled, which goes for the lock.
stop_cleanup ==
    /\ stop_pc = "mq_cleanup"
    /\ join_returns(cleanup.pc # "off")
    /\ stop_pc' = IF enabled THEN "mq_lock" ELSE "done"
    /\ UNCHANGED <<web_vars, mqtt_vars, conf_vars, audit, rq_conn, rq_attempts,
                   rq_lock, rq_pc, rq_delay, rq_sent, rq_ret, rq_revived,
                   rq_bound, rq_key, rq_running>>

\* MqttPublisher.disconnect: `with self._connection_lock`.
mqtt_disconnect_acquire ==
    /\ stop_pc = "mq_lock"
    /\ lock_free(mq_lock)
    /\ mq_lock' = Main
    /\ stop_pc' = "mq_join"
    /\ UNCHANGED <<web_vars, conf_vars, audit, bus_up, mq_client, mq_connected,
                   mq_since, expiry_map, retained, cleanup, quiet, clear_state,
                   rq_conn, rq_attempts, rq_lock, rq_pc, rq_delay, rq_sent,
                   rq_ret, rq_revived, rq_bound, rq_key, rq_running>>

\* disconnect under the lock: _stop_monitor's join on the monitor thread
\* (alive while a client loops), loop_stop(), client.disconnect(), then
\* self._client = None and self._connected = False.
mqtt_disconnect ==
    /\ stop_pc = "mq_join"
    /\ join_returns(mq_client = "looping")
    /\ mq_client' = "none"
    /\ mq_connected' = FALSE
    /\ mq_lock' = None
    /\ stop_pc' = "done"
    /\ UNCHANGED <<web_vars, conf_vars, audit, bus_up, mq_since, expiry_map,
                   retained, cleanup, quiet, clear_state, rq_conn, rq_attempts,
                   rq_lock, rq_pc, rq_delay, rq_sent, rq_ret, rq_revived,
                   rq_bound, rq_key, rq_running>>

\* time.time() advances by one unit.
mqtt_tick ==
    /\ expiry_map' = [t \in Topics |->
                         IF expiry_map[t] > 0 THEN expiry_map[t] - 1
                         ELSE expiry_map[t]]
    /\ mq_since' = ReconnectGap
    /\ UNCHANGED <<web_vars, conf_vars, rabbit_vars, audit, mq_lock, bus_up, mq_client, mq_connected, retained,
                   cleanup, quiet, clear_state>>

\* The broker becomes unreachable or reachable; the callers fall silent.
bus_change ==
    /\ bus_up' = ~bus_up
    /\ UNCHANGED <<web_vars, conf_vars, rabbit_vars, audit, mq_lock, mq_client, mq_connected, mq_since, expiry_map,
                   retained, cleanup, quiet, clear_state>>

go_quiet ==
    /\ ~quiet
    /\ quiet' = TRUE
    /\ UNCHANGED <<web_vars, conf_vars, rabbit_vars, audit, mq_lock, bus_up, mq_client, mq_connected, mq_since,
                   expiry_map, retained, cleanup, clear_state>>

\* ------------------------------------------ RabbitMQ (utils/rabbitmq)

\* How basic_publish can end: without error, with AMQPChannelError or
\* ConnectionClosed, or with any other exception.
SendOutcomes == {"ok", "closed", "other"}

Strategies == {"queue", "retained"}

RECURSIVE Pow2(_)
Pow2(k) == IF k <= 0 THEN 1 ELSE 2 * Pow2(k - 1)

Min(a, b) == IF a <= b THEN a ELSE b

\* The delay _handle_connection_loss sleeps when _reconnect_attempts is k,
\* without the cap, and as the code has it:
\* min(self._reconnect_delay * (2 ** self._reconnect_attempts), 60.0).
backoff_delay_uncapped(k) == ReconnectDelay * Pow2(k)

backoff_delay(k) == Min(ReconnectDelay * Pow2(k), MaxBackoff)

\* _handle_connection_loss returns at once, never, and as the code has it:
\* when self._reconnect_attempts >= self._max_reconnect_attempts.
gives_up_never(k) == FALSE

gives_up(k) == k >= MaxReconnectAttempts

\* _is_connected_internal: connection and channel are set and not closed.
is_connected_internal == rq_conn = "open"

\* RabbitMQService.health_check.
health_check == ~enabled \/ is_connected_internal

\* publish_message's routing key with the exchange type ignored, and as the
\* code has it: the configured key under an exchange, emptied for fanout,
\* the queue name for direct without a key; the queue name under the default
\* exchange.
routing_key_ignores_type(cfg) ==
    IF cfg.exchange # "" THEN cfg.routing_key ELSE rabbitmq_queue

routing_key(cfg) ==
    IF cfg.exchange # ""
    THEN IF cfg.exchange_type = "fanout" THEN ""
         ELSE IF cfg.routing_key = "" /\ cfg.exchange_type = "direct"
              THEN rabbitmq_queue
              ELSE cfg.routing_key
    ELSE rabbitmq_queue

\* connect()'s binding key: the configured key, the queue name for direct
\* without a key (`binding_key or ""` for the rest).
binding_key(cfg) ==
    IF cfg.routing_key = "" /\ cfg.exchange_type = "direct"
    THEN rabbitmq_queue
    ELSE cfg.routing_key

\* queue_bind is called only when an exchange is configured.
queue_bind(cfg) ==
    IF cfg.exchange # "" THEN <<binding_key(cfg)>> ELSE <<>>

\* connect(): _close_connection_internal(), then BlockingConnection(...),
\* which succeeds exactly when the broker is reachable; on success
\* _reconnect_attempts = 0, on failure _reconnect_attempts += 1 and
\* connection and channel stay None.
connect ==
    [ok |-> bus_up,
     conn |-> IF bus_up THEN "open" ELSE "none",
     attempts |-> IF bus_up THEN 0 ELSE rq_attempts + 1,
     bound |-> IF bus_up THEN queue_bind(config) ELSE rq_bound]

\* _start_keep_alive, called by a successful connect().
start_keep_alive(ok) ==
    IF ok /\ rq_pc[KeepAlive] = "off" THEN "sleep" ELSE rq_pc[KeepAlive]

\* RabbitMQService.start, called once by main before anything else runs.
rabbit_start ==
    /\ enabled
    /\ stop_pc = "idle"
    /\ lock_free(rq_lock)
    /\ rq_pc[KeepAlive] = "off" /\ rq_conn = "none" /\ rq_attempts = 0
    /\ audit = 0 /\ rq_ret = "none"
    /\ \A w \in Workers : rq_pc[w] = "idle"
    /\ rq_conn' = connect.conn
    /\ rq_attempts' = connect.attempts
    /\ rq_pc' = [rq_pc EXCEPT ![KeepAlive] = start_keep_alive(connect.ok)]
    /\ rq_bound' = connect.bound
    /\ rq_running' = (rq_running \/ (connect.ok /\ rq_pc[KeepAlive] = "off"))
    /\ UNCHANGED <<web_vars, mqtt_vars, conf_vars, stop_pc, audit, rq_lock, rq_delay,
                   rq_sent, rq_ret, rq_revived, rq_key>>

\* main serves requests only after start() returned True: at once when the
\* service is disabled, else after a first successful connect(), which
\* started the keep-alive thread; it raises RuntimeError otherwise.
started == ~enabled \/ rq_pc[KeepAlive] # "off"

\* RabbitMQService.publish_access_event up to the call of publish_message:
\* json.loads, the ACCESS_EVENT log record, the enabled check.
publish_access_event(w, valid) ==
    /\ rq_pc[w] = "idle"
    /\ started
    /\ IF ~valid
       THEN /\ rq_ret' = "False"
            /\ UNCHANGED <<audit, rq_pc>>
       ELSE /\ audit < MaxCalls
            /\ audit' = IF logs_event(enabled) THEN audit + 1 ELSE audit
            /\ IF ~enabled
               THEN rq_ret' = "True" /\ UNCHANGED rq_pc
               ELSE /\ rq_pc' = [rq_pc EXCEPT ![w] = "acquire"]
                    /\ UNCHANGED rq_ret
    /\ UNCHANGED <<web_vars, mqtt_vars, conf_vars, stop_pc, rq_running, rq_conn, rq_attempts,
                   rq_lock, rq_delay, rq_sent, rq_revived, rq_bound, rq_key>>

\* publish_message: `with self._connection_lock`.
publish_acquire(w) ==
    /\ rq_pc[w] = "acquire"
    /\ lock_free(rq_lock)
    /\ rq_lock' = w
    /\ rq_pc' = [rq_pc EXCEPT ![w] = "check"]
    /\ UNCHANGED <<web_vars, mqtt_vars, conf_vars, stop_pc, rq_running, audit, rq_conn, rq_attempts,
                   rq_delay, rq_sent, rq_ret, rq_revived, rq_bound, rq_key>>

\* publish_message: connect() when not connected, whatever the attempt
\* count; `return False` when it fails.
publish_connect(w) ==
    /\ rq_pc[w] = "check"
    /\ IF is_connected_internal
       THEN /\ rq_pc' = [rq_pc EXCEPT ![w] = "send"]
            /\ UNCHANGED <<rq_conn, rq_attempts, rq_lock, rq_ret, rq_revived,
                           rq_bound, rq_running>>
       ELSE /\ rq_conn' = connect.conn
            /\ rq_bound' = connect.bound
            /\ rq_running' = (rq_running \/ (connect.ok /\ rq_pc[KeepAlive] = "off"))
            /\ rq_attempts' = connect.attempts
            /\ rq_revived' =
                  (rq_revived \/ (connect.ok /\ gives_up(rq_attempts)))
            /\ rq_pc' = [rq_pc EXCEPT
                  ![w] = IF connect.ok THEN "send" ELSE "idle",
                  ![KeepAlive] = start_keep_alive(connect.ok)]
            /\ rq_lock' = IF connect.ok THEN rq_lock ELSE None
            /\ rq_ret' = IF connect.ok THEN rq_ret ELSE "False"
    /\ UNCHANGED <<web_vars, mqtt_vars, conf_vars, stop_pc, audit, rq_delay, rq_sent,
                   rq_key>>

\* _handle_connection_loss entered by thread th under the lock: it returns at
\* once when the attempts are exhausted (the thread then leaves the lock),
\* else it starts time.sleep(delay), the lock still held.
handle_connection_loss(th) ==
    IF gives_up(rq_attempts)
    THEN /\ rq_pc' = [rq_pc EXCEPT
               ![th] = IF th = KeepAlive THEN "sleep" ELSE "idle"]
         /\ rq_lock' = None
         /\ rq_ret' = IF th = KeepAlive THEN rq_ret ELSE "False"
         /\ UNCHANGED rq_delay
    ELSE /\ rq_pc' = [rq_pc EXCEPT ![th] = "backoff"]
         /\ rq_delay' = backoff_delay(rq_attempts)
         /\ UNCHANGED <<rq_lock, rq_ret>>

\* publish_message: basic_publish and its except branches. A connection
\* error raised by pika leaves its connection closed; any other exception
\* returns False and touches nothing.
publish_send(w, outcome) ==
    /\ rq_pc[w] = "send"
    /\ \/ /\ outcome = "ok"
          /\ bus_up
          /\ rq_sent' = rq_sent + 1
          /\ rq_key' = <<routing_key(config)>>
          /\ rq_ret' = "True"
          /\ rq_pc' = [rq_pc EXCEPT ![w] = "idle"]
          /\ rq_lock' = None
          /\ UNCHANGED <<rq_conn, rq_delay>>
       \/ /\ outcome = "closed"
          /\ ~bus_up
          /\ rq_conn' = "closed"
          /\ handle_connection_loss(w)
          /\ UNCHANGED <<rq_sent, rq_key>>
       \/ /\ outcome = "other"
          /\ rq_conn' \in {rq_conn} \cup (IF bus_up THEN {} ELSE {"closed"})
          /\ rq_ret' = "False"
          /\ rq_pc' = [rq_pc EXCEPT ![w] = "idle"]
          /\ rq_lock' = None
          /\ UNCHANGED <<rq_sent, rq_delay, rq_key>>
    /\ UNCHANGED <<web_vars, mqtt_vars, conf_vars, stop_pc, rq_running, audit, rq_attempts,
                   rq_revived, rq_bound>>

\* _handle_connection_loss after its sleep: connect(), then the caller
\* leaves the lock (publish_message with `return False`).
reconnect_after_backoff(th) ==
    /\ rq_pc[th] = "backoff"
    /\ rq_conn' = connect.conn
    /\ rq_attempts' = connect.attempts
    /\ rq_delay' = 0
    /\ rq_lock' = None
    /\ rq_ret' = IF th = KeepAlive THEN rq_ret ELSE "False"
    /\ rq_pc' = [rq_pc EXCEPT
          ![th] = IF th = KeepAlive THEN "sleep" ELSE "idle"]
    /\ rq_bound' = connect.bound
    /\ rq_running' = (rq_running \/ (connect.ok /\ rq_pc[KeepAlive] = "off"))
    /\ UNCHANGED <<web_vars, mqtt_vars, conf_vars, stop_pc, audit, rq_sent, rq_revived,
                   rq_key>>

\* _keep_alive_worker after time.sleep(15.0): the loop ends when
\* _keep_alive_running is false, else the thread goes for the lock.
keep_alive_wake ==
    /\ rq_pc[KeepAlive] = "sleep"
    /\ rq_pc' = [rq_pc EXCEPT
          ![KeepAlive] = IF rq_running THEN "wait" ELSE "off"]
    /\ UNCHANGED <<web_vars, mqtt_vars, conf_vars, stop_pc, rq_running, audit,
                   rq_conn, rq_attempts, rq_lock, rq_delay, rq_sent, rq_ret,
                   rq_revived, rq_bound, rq_key>>

\* _keep_alive_worker: `with self._connection_lock`.
keep_alive_acquire ==
    /\ rq_pc[KeepAlive] = "wait"
    /\ lock_free(rq_lock)
    /\ rq_lock' = KeepAlive
    /\ rq_pc' = [rq_pc EXCEPT ![KeepAlive] = "check"]
    /\ UNCHANGED <<web_vars, mqtt_vars, conf_vars, stop_pc, rq_running, audit, rq_conn, rq_attempts,
                   rq_delay, rq_sent, rq_ret, rq_revived, rq_bound, rq_key>>

\* _keep_alive_worker under the lock: the heartbeat when connected, which
\* fails when the broker cannot be reached; _handle_connection_loss after a
\* failed heartbeat and when not connected.
keep_alive_worker ==
    /\ rq_pc[KeepAlive] = "check"
    /\ IF is_connected_internal /\ bus_up
       THEN /\ rq_pc' = [rq_pc EXCEPT ![KeepAlive] = "sleep"]
            /\ rq_lock' = None
            /\ UNCHANGED <<rq_conn, rq_delay, rq_ret>>
       ELSE /\ rq_conn' = IF is_connected_internal THEN "closed" ELSE rq_conn
            /\ handle_connection_loss(KeepAlive)
    /\ UNCHANGED <<web_vars, mqtt_vars, conf_vars, stop_pc, rq_running, audit, rq_attempts, rq_sent,
                   rq_revived, rq_bound, rq_key>>

\* RabbitMQService.stop: publisher.disconnect() when enabled, which goes
\* for the lock; nothing otherwise.
rabbit_stop ==
    /\ stop_pc = "idle"
    /\ started
    /\ stop_pc' = IF enabled THEN "rq_lock" ELSE "done"
    /\ UNCHANGED <<web_vars, mqtt_vars, conf_vars, audit, rq_conn, rq_attempts,
                   rq_lock, rq_pc, rq_delay, rq_sent, rq_ret, rq_revived,
                   rq_bound, rq_key, rq_running>>

\* RabbitMQPublisher.disconnect: `with self._connection_lock`, then
\* _stop_keep_alive's self._keep_alive_running = False.
disconnect_acquire ==
    /\ stop_pc = "rq_lock"
    /\ lock_free(rq_lock)
    /\ rq_lock' = Main
    /\ rq_running' = FALSE
    /\ stop_pc' = "rq_join"
    /\ UNCHANGED <<web_vars, mqtt_vars, conf_vars, audit, rq_conn, rq_attempts,
                   rq_pc, rq_delay, rq_sent, rq_ret, rq_revived, rq_bound,
                   rq_key>>

\* disconnect under the lock: the join on the keep-alive thread, then
\* _close_connection_internal(); the lock is left and disconnect returns.
disconnect ==
    /\ stop_pc = "rq_join"
    /\ join_returns(rq_pc[KeepAlive] # "off")
    /\ rq_conn' = "none"
    /\ rq_lock' = None
    /\ stop_pc' = "done"
    /\ UNCHANGED <<web_vars, mqtt_vars, conf_vars, audit, rq_attempts, rq_pc,
                   rq_delay, rq_sent, rq_ret, rq_revived, rq_bound, rq_key,
                   rq_running>>

\* ------------------------------------------- the store, called directly

\* DatabaseManager.create_access_request -> AccessRequest.create.
db_create_access_request(owner, duration, ip_address) ==
    /\ Len(requests) < MaxRequests
    /\ requests' = Append(requests,
                          new_request(owner, owner, duration, ip_address, now))
    /\ UNCHANGED <<mqtt_vars, conf_vars, audit, rabbit_vars, now, issued, sessions, worker, sweeper, published,
                   redeemed, consumed, returned, reclosed, last>>

\* DatabaseManager.close_access_request: get_by_id, then request.close().
db_close_access_request(access_id) ==
    /\ request_exists(access_id)
    /\ requests' = [requests EXCEPT
                       ![access_id] = close_row(requests[access_id], now)]
    /\ UNCHANGED <<mqtt_vars, conf_vars, audit, rabbit_vars, now, issued, sessions, worker, sweeper, published,
                   redeemed, consumed, returned, reclosed, last>>

Next ==
    \/ Tick
    \/ \E o \in Owners : create_session(o)
    \/ \E w \in Workers, t \in TokenInputs, d \in DurationInputs, ip \in IpInputs :
          open_access(w, t, d, ip)
    \/ \E w \in Workers : use_atomic(w)
    \/ \E w \in Workers, bus \in BOOLEAN : create_access_request(w, bus)
    \/ \E w \in Workers, id \in AccessIdInputs, t \in TokenInputs \cup {None} :
          close_access(w, id, t)
    \/ \E w \in Workers : close_access_request(w)
    \/ \E w \in Workers : store_error(w)
    \/ \E u \in Owners, id \in AccessIdInputs : handle_close_access(u, id)
    \/ cleanup_expired_sessions
    \/ cleanup_expired_access_requests

Spec == Init /\ [][Next]_vars

\* The store driven through DatabaseManager alone.
NextStore ==
    \/ Tick
    \/ \E o \in Owners, d \in StoreDurations :
          db_create_access_request(o, d, StoreIp)
    \/ \E id \in AccessIdInputs : db_close_access_request(id)
    \/ cleanup_expired_sessions
    \/ cleanup_expired_access_requests

SpecStore == Init /\ [][NextStore]_vars

\* The MQTT service: its callers, its threads, the broker and the clock.
NextMqtt ==
    \/ mqtt_start
    \/ \E t \in Topics, ttl \in TtlInputs : publish_whitelist_open(t, ttl)
    \/ \E t \in Topics : publish_whitelist_close(t)
    \/ cleanup_worker_scan
    \/ cleanup_worker_publish
    \/ on_connect
    \/ on_disconnect
    \/ monitor_acquire
    \/ monitor_worker
    \/ mqtt_tick
    \/ bus_change
    \/ go_quiet

\* The cleanup thread, the monitor thread and the network loop keep running
\* and time passes. The monitor holds the lock for an instant every 5 s and
\* sleeps in between, so a cleanup thread waiting for the lock gets it.
SpecMqtt ==
    /\ InitState("retained", TRUE)
    /\ [][NextMqtt]_vars
    /\ WF_vars(cleanup_worker_scan)
    /\ SF_vars(cleanup_worker_publish)
    /\ WF_vars(on_connect)
    /\ WF_vars(monitor_acquire)
    /\ WF_vars(monitor_worker)
    /\ WF_vars(mqtt_tick)

\* A deployment publishes through one of the two services, enabled or not:
\* the durable-queue publisher with the request workers and its keep-alive
\* thread, or the retained-message publisher with its threads.
InitBus == \E st \in Strategies, en \in BOOLEAN : InitState(st, en)

NextBus ==
    \/ strategy = "queue" /\ rabbit_start
    \/ strategy = "queue" /\ \E w \in Workers, valid \in BOOLEAN :
                                 publish_access_event(w, valid)
    \/ strategy = "queue" /\ \E w \in Workers : publish_acquire(w)
    \/ strategy = "queue" /\ \E w \in Workers : publish_connect(w)
    \/ strategy = "queue" /\ \E w \in Workers, o \in SendOutcomes :
                                 publish_send(w, o)
    \/ strategy = "queue" /\ \E th \in Threads : reconnect_after_backoff(th)
    \/ strategy = "queue" /\ keep_alive_wake
    \/ strategy = "queue" /\ keep_alive_acquire
    \/ strategy = "queue" /\ keep_alive_worker
    \/ strategy = "retained" /\ mqtt_start
    \/ strategy = "retained" /\ \E t \in Topics, ttl \in TtlInputs :
                                    publish_whitelist_open(t, ttl)
    \/ strategy = "retained" /\ \E t \in Topics : publish_whitelist_close(t)
    \/ strategy = "retained" /\ cleanup_worker_scan
    \/ strategy = "retained" /\ cleanup_worker_publish
    \/ strategy = "retained" /\ on_connect
    \/ strategy = "retained" /\ on_disconnect
    \/ strategy = "retained" /\ monitor_acquire
    \/ strategy = "retained" /\ monitor_worker
    \/ strategy = "retained" /\ mqtt_tick
    \/ strategy = "retained" /\ go_quiet
    \/ bus_change

SpecBus == InitBus /\ [][NextBus]_vars

\* The grants of several completed opens (the store call open_access ends
\* with, for either address and the shortest allowed duration), then closed
\* from the web and from the bot.
GrantDurations == {3600}

NextGrants ==
    \/ Tick
    \/ \E o \in Owners, d \in GrantDurations, ip \in IpInputs :
          db_create_access_request(o, d, ip)
    \/ \E w \in Workers, id \in AccessIdInputs, t \in TokenInputs \cup {None} :
          close_access(w, id, t)
    \/ \E w \in Workers : close_access_request(w)
    \/ \E u \in Owners, id \in AccessIdInputs : handle_close_access(u, id)

SpecGrants == Init /\ [][NextGrants]_vars

\* The durable-queue publisher under every exchange configuration.
InitRouting == \E cfg \in Configs : InitConfig("queue", TRUE, cfg)

NextRouting ==
    \/ rabbit_start
    \/ \E w \in Workers, valid \in BOOLEAN : publish_access_event(w, valid)
    \/ \E w \in Workers : publish_acquire(w)
    \/ \E w \in Workers : publish_connect(w)
    \/ \E w \in Workers, o \in SendOutcomes : publish_send(w, o)
    \/ \E th \in Threads : reconnect_after_backoff(th)
    \/ keep_alive_wake
    \/ keep_alive_acquire
    \/ keep_alive_worker
    \/ bus_change

SpecRouting == InitRouting /\ [][NextRouting]_vars

\* Either service with its shutdown. Every thread that runs keeps running,
\* so a thread inside a lock leaves it (the network calls are bounded by the
\* timeouts connect() sets), and the shutdown, waiting for a lock that is
\* free again and again, gets it.
NextStop ==
    \/ strategy = "queue" /\ rabbit_start
    \/ strategy = "queue" /\ \E w \in Workers, valid \in BOOLEAN :
                                 publish_access_event(w, valid)
    \/ strategy = "queue" /\ \E w \in Workers : publish_acquire(w)
    \/ strategy = "queue" /\ \E w \in Workers : publish_connect(w)
    \/ strategy = "queue" /\ \E w \in Workers, o \in SendOutcomes :
                                 publish_send(w, o)
    \/ strategy = "queue" /\ \E th \in Threads : reconnect_after_backoff(th)
    \/ strategy = "queue" /\ keep_alive_wake
    \/ strategy = "queue" /\ keep_alive_acquire
    \/ strategy = "queue" /\ keep_alive_worker
    \/ strategy = "retained" /\ mqtt_start
    \/ strategy = "retained" /\ \E t \in Topics, ttl \in TtlInputs :
                                    publish_whitelist_open(t, ttl)
    \/ strategy = "retained" /\ \E t \in Topics : publish_whitelist_close(t)
    \/ strategy = "retained" /\ cleanup_worker_scan
    \/ strategy = "retained" /\ cleanup_worker_publish
    \/ strategy = "retained" /\ on_connect
    \/ strategy = "retained" /\ on_disconnect
    \/ strategy = "retained" /\ monitor_acquire
    \/ strategy = "retained" /\ monitor_worker
    \/ strategy = "retained" /\ mqtt_tick
    \/ strategy = "retained" /\ go_quiet
    \/ strategy = "queue" /\ rabbit_stop
    \/ strategy = "queue" /\ disconnect_acquire
    \/ strategy = "queue" /\ disconnect
    \/ strategy = "retained" /\ mqtt_stop
    \/ strategy = "retained" /\ stop_cleanup
    \/ strategy = "retained" /\ mqtt_disconnect_acquire
    \/ strategy = "retained" /\ mqtt_disconnect
    \/ bus_change

SpecStop ==
    /\ InitBus
    /\ [][NextStop]_vars
    /\ WF_vars(\E w \in Workers : publish_connect(w))
    /\ WF_vars(\E w \in Workers, o \in SendOutcomes : publish_send(w, o))
    /\ WF_vars(\E th \in Threads : reconnect_after_backoff(th))
    /\ WF_vars(keep_alive_worker)
    /\ WF_vars(monitor_worker)
    /\ SF_vars(disconnect_acquire)
    /\ WF_vars(disconnect)
    /\ WF_vars(stop_cleanup)
    /\ SF_vars(mqtt_disconnect_acquire)
    /\ WF_vars(mqtt_disconnect)

\* The access page and the open endpoint, served by the same workers.
NextPage ==
    \/ \E o \in Owners : create_session(o)
    \/ \E w \in Workers, t \in TokenInputs, ip \in IpInputs :
          access_page(w, t, ip)
    \/ \E w \in Workers : set_ip(w)
    \/ \E w \in Workers, t \in TokenInputs, d \in DurationInputs, ip \in IpInputs :
          open_access(w, t, d, ip)
    \/ \E w \in Workers : use_atomic(w)
    \/ \E w \in Workers, bus \in BOOLEAN : create_access_request(w, bus)

SpecPage == Init /\ [][NextPage]_vars

\* ================================================================ claims

\* C1: for every token, however many use_atomic calls run concurrently, at
\* most one of them returns True; every other call returns False.
C1_AtMostOneConsumeWins ==
    \A t \in Tokens : consumed[t].won <= 1

\* Two calls raced on one token: one returned True, another False.
C1_RaceLost ==
    \E t \in Tokens : consumed[t].won = 1 /\ consumed[t].lost # {}

C3_LaterConsumeFails ==
    [][\A w \in Workers :
          (/\ worker[w].pc = "use_atomic"
           /\ consumed[worker[w].tok].won >= 1
           /\ use_atomic(w))
          => /\ worker'[w].pc = "idle"
             /\ last'.resp = "OK"
             /\ consumed'[worker[w].tok].won = consumed[worker[w].tok].won
             /\ sessions' = sessions]_vars

\* A consume from a second IP failed and the row still holds the first IP.
C3_SecondIpRefused ==
    \E t \in Tokens :
        /\ sessions[t] # NoRow
        /\ sessions[t].used
        /\ consumed[t].won = 1
        /\ \E ip \in consumed[t].lost : ip # sessions[t].ip_address

\* C4: every stored access request was created by an open_access whose token
\* had been consumed before: the token's use_atomic returned True and its
\* row, while it exists, is marked used.
C4_ConsumeBeforeCreate ==
    \A i \in DOMAIN requests :
        /\ i \in DOMAIN redeemed
        /\ consumed[redeemed[i]].won >= 1
        /\ sessions[redeemed[i]] # NoRow => sessions[redeemed[i]].used

\* A request is stored and the row of its token is marked used.
C4_RequestOfUsedToken ==
    \E i \in DOMAIN requests :
        sessions[redeemed[i]] # NoRow /\ sessions[redeemed[i]].used

\* C5: an open_access whose duration is not one of 3600, 10800, 28800, 43200
\* is refused at once, whatever the state of the token: no request is
\* created, nothing is published, and the session table is left as it was;
\* no handler in progress and no stored request carries another duration.
C5_step ==
    \A w \in Workers :
        worker[w].pc = "idle" =>
            \A d \in {x \in DurationInputs : int_of(x) \notin ALLOWED_DURATIONS} :
                \A t \in TokenInputs, ip \in IpInputs :
                    open_access(w, t, d, ip)
                    => /\ worker'[w].pc = "idle"
                       /\ last'.op = "open" /\ last'.resp = "OK"
                       /\ requests' = requests
                       /\ published' = published
                       /\ sessions' = sessions

C5_state ==
    /\ \A w \in Workers :
          worker[w].pc \in {"use_atomic", "create"}
              => worker[w].dur \in ALLOWED_DURATIONS
    /\ \A i \in DOMAIN requests : requests[i].duration \in ALLOWED_DURATIONS

C6_lookup(w, t) ==
    \E d \in {x \in DurationInputs : validate_duration(x) # None} :
        \E ip \in IpInputs : open_access(w, t, d, ip)

\* C6 (as amended): get_session never returns a session whose expires_at is
\* before the clock reading; a stored session with expires_at < now is
\* deleted and the caller is told there is none; a stored session with
\* expires_at = now is still returned and stays stored.
C6_GetSessionStrictlyAfterExpiry ==
    [][\A w \in Workers, t \in Tokens :
          C6_lookup(w, t) =>
              IF sessions[t] = NoRow
              THEN sessions' = sessions /\ worker'[w].pc = "idle"
              ELSE IF sessions[t].expires_at < now
              THEN /\ sessions'[t] = NoRow
                   /\ worker'[w].pc = "idle"
                   /\ last'.resp = "OK"
              ELSE /\ sessions' = sessions
                   /\ ~sessions[t].used =>
                         /\ worker'[w].pc = "use_atomic"
                         /\ worker'[w].sess = sessions[t]
                         /\ worker'[w].sess.expires_at >= now]_vars

\* C6 as the specification words it: a stored session with expires_at <= now
\* is deleted and reported absent, so a returned one has expires_at > now.
C6_GetSessionAtExpiry ==
    [][\A w \in Workers, t \in Tokens :
          C6_lookup(w, t) =>
              IF sessions[t] = NoRow
              THEN sessions' = sessions /\ worker'[w].pc = "idle"
              ELSE IF sessions[t].expires_at <= now
              THEN /\ sessions'[t] = NoRow
                   /\ worker'[w].pc = "idle"
                   /\ last'.resp = "OK"
              ELSE /\ sessions' = sessions
                   /\ ~sessions[t].used =>
                         /\ worker'[w].pc = "use_atomic"
                         /\ worker'[w].sess = sessions[t]
                         /\ worker'[w].sess.expires_at > now]_vars

\* A handler holds a session it looked up at the very instant of expires_at.
C6_ReturnedAtExpiry ==
    \E w \in Workers :
        /\ worker[w].pc = "use_atomic"
        /\ worker[w].sess.expires_at = worker[w].at

C8_ClosedAtIffClosed ==
    \A i \in DOMAIN requests :
        requests[i].closed_at # None <=> requests[i].status = "closed"

\* A request that was closed, once, after it had expired.
C8_ClosedAfterExpiry ==
    \E i \in DOMAIN requests :
        /\ requests[i].status = "closed"
        /\ requests[i].expires_at # None
        /\ requests[i].closed_at > requests[i].expires_at
        /\ i \notin reclosed

\* C9: a request's status never goes from closed back to open.
C9_ClosedStaysClosed ==
    [][\A i \in DOMAIN requests :
          requests[i].status = "closed"
              => i \in DOMAIN requests' /\ requests'[i].status = "closed"]_vars

\* A closed request was closed once more and is still closed.
C9_ClosedTwice ==
    \E i \in reclosed : requests[i].status = "closed"

\* C10: close_access_request on a request that is already closed leaves the
\* stored record as it is, closed_at keeping the value of the first close.
C10_CloseIdempotent ==
    [][\A w \in Workers :
          (/\ worker[w].pc = "close"
           /\ worker[w].req.status = "closed"
           /\ close_access_request(w))
          => requests' = requests]_vars

\* C11: for every owner, get_active_for_user returns exactly that owner's
\* requests with status open and expires_at null or after the clock reading,
\* each once, the more recently created first; an open request that has
\* expired and is not yet swept is not among them.
C11_ListActiveExact ==
    \A o \in Owners :
        LET L == get_active_for_user(o, now) IN
        /\ Range(L) = {i \in DOMAIN requests :
                          /\ requests[i].telegram_user_id = o
                          /\ requests[i].status = "open"
                          /\ \/ requests[i].expires_at = None
                             \/ requests[i].expires_at > now}
        /\ \A j, k \in DOMAIN L :
              j < k => /\ L[j] # L[k]
                       /\ requests[L[j]].created_at >= requests[L[k]].created_at

\* An owner has an open request that expired and was not swept, beside a
\* newer live one; only the live one is listed.
C11_ExpiredUnsweptLeftOut ==
    \E o \in Owners, i, k \in DOMAIN requests :
        /\ requests[i].telegram_user_id = o /\ requests[k].telegram_user_id = o
        /\ requests[i].status = "open"
        /\ requests[i].expires_at # None /\ requests[i].expires_at <= now
        /\ requests[k].status = "open"
        /\ requests[k].created_at > requests[i].created_at
        /\ get_active_for_user(o, now) = <<k>>

\* C12: the sweeper tick that finds an open request of a non-excluded IP past
\* its expires_at closes it, sets closed_at, and calls the close publish
\* exactly once for it.
C12_SweepPublishesClose ==
    [][cleanup_expired_access_requests
          => /\ \A i \in DOMAIN requests :
                   (/\ requests[i].status = "open"
                    /\ requests[i].expires_at # None
                    /\ requests[i].expires_at < now)
                   => /\ requests'[i].status = "closed"
                      /\ requests'[i].closed_at # None
             /\ published' = published + Cardinality(
                   {i \in DOMAIN requests :
                       /\ requests[i].status = "open"
                       /\ requests'[i].status = "closed"
                       /\ ~is_local_ip(requests[i].ip_address)})]_vars

\* C13: when the cleanup loop's clear publish for a topic has failed and the
\* callers open and close nothing more, then, if the broker is from some
\* point on always reachable, the cleanup loop eventually publishes the empty
\* retained payload for the topic and the topic leaves the expiry map.
C13_ClearEventuallySucceeds ==
    <>[]bus_up =>
        \A t \in Topics :
            (clear_state[t] = "failed" /\ quiet)
                ~> (expiry_map[t] = None /\ ~retained[t])

\* A topic whose clear had failed was cleared by a later pass of the loop.
C13_ClearedOnRetry ==
    \E t \in Topics :
        /\ clear_state[t] = "recovered"
        /\ expiry_map[t] = None
        /\ ~retained[t]

\* C14: when the bus cannot be reached while open_access handles a valid,
\* unused token with an allowed duration from an IP outside the excluded
\* ranges, the request is created and the response is the successful one.
C14_GrantSurvivesBusOutage ==
    [][\A w \in Workers :
          (create_access_request(w, FALSE) /\ ~is_local_ip(worker[w].ip))
              => /\ Len(requests') = Len(requests) + 1
                 /\ last'.resp = "success"]_vars

\* C15: every open_access that refuses answers what it answers to a
\* malformed token, whatever the cause of the refusal.
C15_RefusalsAlike ==
    (last.op = "open" /\ last.resp # "success")
        => last.resp = reject("malformed")

\* An open refused for a token that was well formed and whose session had
\* been used, after a race for it had been lost.
C15_RefusedUsedToken ==
    /\ last.op = "open" /\ last.resp = reject("malformed")
    /\ last.tok \in Tokens /\ last.dur_ok
    /\ sessions[last.tok] # NoRow /\ sessions[last.tok].used
    /\ consumed[last.tok].lost # {}

\* C16: open_access publishes an open event exactly when the client IP is
\* outside the excluded ranges; for an excluded IP the request is created
\* and nothing is published.
C16_PublishOpenIffNotExcluded ==
    [][\A w \in Workers, bus \in BOOLEAN :
          create_access_request(w, bus)
              => /\ Len(requests') = Len(requests) + 1
                 /\ (published' = published + 1) <=> ~is_local_ip(worker[w].ip)
      ]_vars

C18_ExpiryIsCreationPlusDuration ==
    \A i \in 1..Len(requests) :
        /\ requests[i].duration \in ALLOWED_DURATIONS
              => requests[i].expires_at - requests[i].created_at
                     = requests[i].duration
        /\ (requests[i].expires_at = None) <=> (requests[i].duration <= 0)

\* A request created after the clock had advanced, with a duration of the
\* allow-list, next to one created with a duration <= 0.
C18_TimedAndUntimed ==
    \E i, j \in 1..Len(requests) :
        /\ requests[i].duration \in ALLOWED_DURATIONS
        /\ requests[i].created_at > 0
        /\ requests[i].expires_at = requests[i].created_at + requests[i].duration
        /\ requests[j].duration <= 0
        /\ requests[j].expires_at = None

\* The session of token t is stored, used and not expired, and a request
\* was created from it.
C19_redeemed(t) ==
    /\ sessions[t] # NoRow
    /\ sessions[t].used
    /\ ~session_is_expired(sessions[t], now)
    /\ \E i \in DOMAIN redeemed : redeemed[i] = t

C20_InvalidTokenGetsJson ==
    (last.op = "open" /\ ~validate_token(last.tok))
        => /\ status_code(last.resp) = 200
           /\ is_json_object(last.resp)

\* C25 as stated: after the sweeper's session DELETE at clock reading now, no
\* session with expires_at <= now is stored, and the sessions with
\* expires_at > now are as they were.
C25_SweepDeletesUpToNow ==
    [][cleanup_expired_sessions =>
          \A t \in Tokens :
              /\ sessions'[t] # NoRow => sessions'[t].expires_at > now
              /\ (sessions[t] # NoRow /\ sessions[t].expires_at > now)
                    => sessions'[t] = sessions[t]]_vars

\* C25: after the sweeper's session DELETE at clock reading now, no session
\* with expires_at < now is stored, and the sessions with expires_at >= now
\* are as they were: a session that expires exactly at now is kept.
C25_SweepDeletesStrictlyBeforeNow ==
    [][cleanup_expired_sessions =>
          \A t \in Tokens :
              /\ sessions'[t] # NoRow => sessions'[t].expires_at >= now
              /\ (sessions[t] # NoRow /\ sessions[t].expires_at >= now)
                    => sessions'[t] = sessions[t]
              /\ (sessions[t] # NoRow /\ sessions[t].expires_at < now)
                    => sessions'[t] = NoRow]_vars

\* The session DELETE has run and a session whose expires_at equals the
\* clock is still stored.
C25_KeptAtBoundary ==
    /\ sweeper = "requests"
    /\ \E t \in Tokens :
          sessions[t] # NoRow /\ sessions[t].expires_at = now

\* The monitor thread calls reconnect(): its _attempt_reconnect is not
\* refused by the 5 s gap.
C21_monitor_attempt ==
    monitor_worker /\ ~mq_connected /\ mq_since >= ReconnectGap

\* C21: while the broker stays unreachable and nothing is published (the
\* callers are silent and no topic is scheduled for a clear), the monitor
\* thread makes only finitely many reconnect attempts and then stops.
C21_MonitorStopsRetrying ==
    <>[](~bus_up /\ quiet /\ \A t \in Topics : expiry_map[t] = None)
        => <>[][~C21_monitor_attempt]_vars

\* C22: a publish call issued while the publisher is not connected first
\* calls connect() or reconnect(); the message is sent and True returned
\* exactly when that attempt succeeds, which it does when the broker is
\* reachable.
C22_PublishConnectsOnUse ==
    [][\A t \in Topics :
          (/\ enabled
           /\ ~mq_connected
           /\ (publish_whitelist_close(t)
                 \/ \E ttl \in TtlInputs \ {0} : publish_whitelist_open(t, ttl)))
              => /\ publish.tried
                 /\ publish.ok <=> bus_up]_vars

\* C27: the delay the durable-queue publisher sleeps before a reconnection
\* attempt, when k attempts have failed since the last successful connect,
\* is min(5 * 2^k, 60): 5, 10, 20, 40 and then 60, never more than 60.
C27_BackoffDoublesToCap ==
    LET delays == <<5, 10, 20, 40, 60>>
    IN  \A th \in Threads :
            rq_pc[th] = "backoff" =>
                /\ rq_attempts + 1 \in DOMAIN delays
                /\ rq_delay = delays[rq_attempts + 1]
                /\ rq_delay <= 60

C27_BackoffAtCap ==
    /\ rq_pc[KeepAlive] = "backoff"
    /\ rq_attempts = 4
    /\ rq_delay = 60

\* C26: once the durable-queue publisher's reconnection attempts are
\* exhausted (the count has reached the maximum), it is not connected and
\* reports unhealthy, and no thread attempts a connect until a
\* publish_message does; a connect that succeeds resets the count to 0.
C26_ExhaustedUntilPublish ==
    [][/\ rq_attempts >= MaxReconnectAttempts =>
            /\ ~is_connected_internal /\ ~health_check
            /\ (rq_attempts' # rq_attempts \/ rq_conn' # rq_conn) =>
                   \E w \in Workers : publish_connect(w)
       /\ (~is_connected_internal /\ rq_conn' = "open") => rq_attempts' = 0
      ]_vars

C26_RevivedByPublish ==
    /\ rq_revived
    /\ is_connected_internal /\ health_check
    /\ rq_attempts = 0

\* C28: the keep-alive thread never holds the connection lock while it
\* sleeps, be it its periodic interval or a backoff delay.
C28_NoLockWhileSleeping ==
    rq_pc[KeepAlive] \in {"sleep", "backoff"} => rq_lock # KeepAlive

\* C29: when the durable-queue publisher has handled a send failure of
\* publish_message or a heartbeat failure of the keep-alive thread, it is
\* Disconnected (connection and channel dropped, is_connected false) unless
\* the connect of that handling succeeded.
C29_FailureLeavesDisconnected ==
    [][\A th \in Threads :
          (/\ \/ th \in Workers /\ publish_send(th, "closed")
              \/ th \in Workers /\ publish_send(th, "other")
              \/ reconnect_after_backoff(th)
           /\ rq_pc'[th] # "backoff")
          => \/ rq_conn' = "none"
             \/ reconnect_after_backoff(th) /\ connect.ok
      ]_vars

\* C23: per publisher, at most one thread at a time operates on the
\* connection or changes the connection state: no two threads of the
\* durable-queue publisher are between taking and leaving its lock, and
\* while a thread of the retained-message publisher holds its lock no other
\* thread changes the client or the connected flag.
C23_OneThreadAtATime ==
    [][/\ \A a, b \in Threads :
             (/\ rq_pc[a] \in {"check", "send", "backoff"}
              /\ rq_pc[b] \in {"check", "send", "backoff"}) => a = b
       /\ (/\ mq_lock # None
           /\ (mq_connected' # mq_connected \/ mq_client' # mq_client))
          => monitor_worker
      ]_vars

\* C24: every valid publish call of either service (publish_access_event
\* with well-formed JSON, publish_whitelist_open, publish_whitelist_close)
\* adds one record to the local audit log, whether the bus is disabled,
\* unreachable, or the publish fails.
C24_EveryCallIsLogged ==
    [][(\/ \E w \in Workers : publish_access_event(w, TRUE)
        \/ \E t \in Topics, ttl \in TtlInputs : publish_whitelist_open(t, ttl)
        \/ \E t \in Topics : publish_whitelist_close(t))
       => audit' = audit + 1
      ]_vars

C24_LoggedWithoutBus ==
    /\ audit = MaxCalls
    /\ ~enabled \/ ~bus_up
    /\ rq_sent = 0
    /\ \A t \in Topics : ~retained[t]

\* C30: publish_whitelist_open(topic, ttl) sets the topic's entry of the
\* expiry map to ttl from now exactly when the service is enabled, ttl > 0
\* and the open publish succeeded; in every other case, and for every other
\* topic, it leaves the expiry map as it was.
C30_ExpiryScheduledIffPublished ==
    [][\A t \in Topics, ttl \in TtlInputs :
          publish_whitelist_open(t, ttl) =>
              expiry_map' = IF enabled /\ ttl > 0 /\ publish.ok
                            THEN [expiry_map EXCEPT ![t] = ttl]
                            ELSE expiry_map
      ]_vars

C30_ScheduledAndNotScheduled ==
    \E t, u \in Topics :
        /\ retained[t] /\ expiry_map[t] = MaxTtl
        /\ ~retained[u] /\ expiry_map[u] = None
        /\ audit = MaxCalls

\* C36: the cleanup loop clears a topic (publishes the empty payload and
\* removes the expiry entry) only when the topic's expiry at the moment of
\* the clear is not in the future, also when publish_whitelist_open for the
\* topic ran between the loop's scan and its clear.
C36_ClearsOnlyExpired ==
    [][(cleanup_worker_publish /\ publish.ok)
       => expiry_map[Head(cleanup.expired)] <= 0
      ]_vars

\* C37: every topic whose retained open payload was published and has not
\* since been cleared on the broker has an entry in the expiry map; a
\* publish_whitelist_close whose clear publish fails keeps the entry.
C37_RetainedIsScheduled ==
    \A t \in Topics : retained[t] => expiry_map[t] # None

\* C35: a close issued through the bot by a user who is not the owner of
\* the request leaves the stored request as it was.
C35_StrangerCloseChangesNothing ==
    [][\A u \in Owners, id \in AccessIdInputs :
          (/\ handle_close_access(u, id)
           /\ requests[id].telegram_user_id # u)
          => requests'[id] = requests[id]
      ]_vars

\* C34: whenever use_atomic consumes a session, the session has not expired
\* at the moment of the conditional update (the clock has not passed its
\* expires_at), also when time advanced since get_session's expiry check.
C34_ConsumedBeforeExpiry ==
    [][\A w \in Workers :
          (use_atomic(w) /\ use_atomic_matches(worker[w].tok))
          => now <= sessions[worker[w].tok].expires_at
      ]_vars

\* C38: a close event is published for a request's IP only when no other
\* open, unexpired request for the same IP remains: closing one of several
\* grants that share an IP publishes nothing while another is still active.
C38_other_grant(id) ==
    \E j \in DOMAIN requests :
        /\ j # id
        /\ requests[j].ip_address = requests[id].ip_address
        /\ requests[j].status = "open"
        /\ requests[j].expires_at = None \/ requests[j].expires_at > now

C32_RoutingKeyResolved ==
    rq_key # <<>> =>
        /\ rq_key[1] =
              CASE config.exchange = "" -> "firewall_access"
                [] config.exchange_type = "fanout" -> ""
                [] config.exchange_type = "direct" /\ config.routing_key = ""
                      -> "firewall_access"
                [] OTHER -> config.routing_key
        /\ (config.exchange # "" /\ config.exchange_type # "fanout")
              => rq_bound = rq_key

C32_FanoutWithKeyPublished ==
    /\ rq_key = <<"">>
    /\ config.exchange_type = "fanout" /\ config.routing_key # ""
    /\ rq_bound = <<config.routing_key>>

C39_StaysDisconnected ==
    [][(stop_pc = "done" /\ rq_conn # "open" /\ rq_conn' = "open")
       => \E w \in Workers : publish_connect(w) \/ reconnect_after_backoff(w)
      ]_vars

\* C33: once a session has been consumed (used is true), its stored
\* ip_address never changes again, whichever way the access page handler
\* and open_access interleave.
C33_ConsumedIpIsFinal ==
    [][\A t \in Tokens :
          (sessions[t] # NoRow /\ sessions[t].used /\ sessions'[t] # NoRow)
          => sessions'[t].ip_address = sessions[t].ip_address
      ]_vars

====
